---- MODULE Spec2Model ----
(***************************************************************************)
(* Model of the analysis orchestration of ContractGuard AI                 *)
(* (src/backend.py): analyze_contract calls the AI pipeline, validates its *)
(* response, computes the analytics and assembles the report.              *)
(*                                                                         *)
(* Python values are tagged records.  A field value is [t, s, n]: t is the *)
(* Python type name, s the payload of a str, n the payload of a number (a  *)
(* bool carries n = 1 for True, as Python's bool is an int).  A list item  *)
(* is [t, d]: d is the mapping of a dict (a function from its keys to      *)
(* field values).  The value returned by the pipeline is [t, l]: l is the  *)
(* sequence of items of a list.                                            *)
(***************************************************************************)
EXTENDS Integers, Sequences, FiniteSets, TLC

\* ---------------------------------------------------------------- bounds
\* longest list the AI pipeline returns in the model
MaxLen == 3
\* integer risk scores range over 0..MaxScore
MaxScore == 1

\* ---------------------------------------------------------------- values
PyStr(x) == [t |-> "str", s |-> x, n |-> 0]
PyInt(x) == [t |-> "int", s |-> "", n |-> x]
\* a float, carried in hundredths (0.95 is PyFloat(95))
PyFloat(x) == [t |-> "float", s |-> "", n |-> x]
PyTrue == [t |-> "bool", s |-> "", n |-> 1]
PyNone == [t |-> "NoneType", s |-> "", n |-> 0]
\* a list used as a field value (unhashable)
PyList == [t |-> "list", s |-> "", n |-> 0]

Dict(m) == [t |-> "dict", d |-> m]
\* the empty dict {}
EmptyDict == Dict(<<>>)
\* a list item that is not a dict
NonDict(ty) == [t |-> ty, d |-> <<>>]

REQUIRED_KEYS ==
  <<"clause", "risk_type", "risk_score", "reasoning", "suggested_revision", "confidence">>

KeySet == {REQUIRED_KEYS[i] : i \in 1..Len(REQUIRED_KEYS)}

\* a number in hundredths: ints and bools count units, floats hundredths
Hundredths(v) == IF v.t = "float" THEN v.n ELSE 100 * v.n

\* isinstance(v, (int, float)): bool is a subclass of int
IsNumber(v) == v.t \in {"int", "float", "bool"}

\* `key in item` and item.get(key, default) of a dict
HasKey(item, key) == key \in DOMAIN item.d
Get(item, key, default) == IF HasKey(item, key) THEN item.d[key] ELSE default

\* ---------------------------------------------------------------- inputs
RiskTypes == {"Liability", "Financial"}

\* a well-formed clause judgment
Clause(score, rtype) ==
  Dict([k \in KeySet |->
          CASE k = "clause" -> PyStr("C")
            [] k = "risk_type" -> rtype
            [] k = "risk_score" -> score
            [] k = "reasoning" -> PyStr("r")
            [] k = "suggested_revision" -> PyStr("s")
            [] k = "confidence" -> PyFloat(95)])

GoodClauses == {Clause(PyInt(sc), PyStr(rt)) : sc \in 0..MaxScore, rt \in RiskTypes}

BaseClause == Clause(PyInt(1), PyStr("Liability"))

\* item with one key removed, and with one value replaced
Without(item, keys) == Dict([k \in DOMAIN item.d \ keys |-> item.d[k]])
With(item, key, v) == Dict([item.d EXCEPT ![key] = v])

MissingKeyItems ==
  {Without(BaseClause, {k}) : k \in KeySet} \cup {Without(BaseClause, KeySet \ {"clause"})}

WrongTypeItems ==
  {With(BaseClause, "risk_score", v) : v \in {PyStr("8"), PyNone, PyTrue}}
    \cup {With(BaseClause, "confidence", v) : v \in {PyStr("high"), PyNone, PyTrue, PyInt(1)}}
    \cup {With(BaseClause, "risk_type", v) : v \in {PyNone, PyList}}
    \cup {With(BaseClause, k, PyInt(5)) : k \in {"clause", "reasoning"}}

NonDictItems == {NonDict("str")}

\* records the validator accepts as they are: a risk score of 15 with a
\* confidence of 2.0, and a risk type that differs from another in case only
LenientItems ==
  {With(With(BaseClause, "risk_score", PyInt(15)), "confidence", PyFloat(200)),
   With(BaseClause, "risk_type", PyStr("liability"))}

Items == GoodClauses \cup MissingKeyItems \cup WrongTypeItems \cup NonDictItems \cup LenientItems

SeqsUpTo(S, n) == UNION {[1..k -> S] : k \in 0..n}

PyListOf(items) == [t |-> "list", l |-> items]
\* a returned value that is not a list
NonList(ty) == [t |-> ty, l |-> <<>>]

NonListValues == {NonList(ty) : ty \in {"NoneType", "int", "str", "dict"}}

\* everything ai_pipeline.extract_and_analyze may return
RawValues == {PyListOf(s) : s \in SeqsUpTo(Items, MaxLen)} \cup NonListValues

\* exceptions the pipeline may raise
PipelineExceptions == {"ValueError", "ConnectionError"}


\* ------------------------------------------------------------ exceptions
\* an exception: its type, its message (text, the index and the keys the
\* message embeds; index -1 when the message embeds none)
Exc(ty, text, index, keys) == [exc |-> ty, text |-> text, index |-> index, keys |-> keys]
NoExc == Exc("", "", -1, <<>>)

Returned(v) == [raised |-> FALSE, value |-> v, exc |-> NoExc]
Raised(e) == [raised |-> TRUE, value |-> <<>>, exc |-> e]

\* ------------------------------------------------- validate_ai_response
\* [key for key in REQUIRED_KEYS if key not in item]
MissingKeys(item) == SelectSeq(REQUIRED_KEYS, LAMBDA key : ~HasKey(item, key))

\* CheckItem without the check of 'confidence'
CheckItem_NoConfidenceCheck(item, index) ==
  IF item.t # "dict"
    THEN Exc("ValueError", "is not a dictionary", index, <<>>)
  ELSE IF MissingKeys(item) # <<>>
    THEN Exc("ValueError", "missing keys", index, MissingKeys(item))
  ELSE IF ~IsNumber(Get(item, "risk_score", PyNone))
    THEN Exc("ValueError", "'risk_score' must be int or float", index, <<>>)
  ELSE NoExc

\* CheckItem over enumerate(data, 1): the message counts the items from 1
CheckItem_OneBased(item, index) ==
  IF CheckItem_NoConfidenceCheck(item, index + 1) # NoExc
    THEN CheckItem_NoConfidenceCheck(item, index + 1)
  ELSE IF ~IsNumber(Get(item, "confidence", PyNone))
    THEN Exc("ValueError", "'confidence' must be a number", index + 1, <<>>)
  ELSE NoExc

\* the body of the loop for the item at Python index `index`
CheckItem(item, index) ==
  IF item.t # "dict"
    THEN Exc("ValueError", "is not a dictionary", index, <<>>)
  ELSE IF MissingKeys(item) # <<>>
    THEN Exc("ValueError", "missing keys", index, MissingKeys(item))
  ELSE IF ~IsNumber(Get(item, "risk_score", PyNone))
    THEN Exc("ValueError", "'risk_score' must be int or float", index, <<>>)
  ELSE IF ~IsNumber(Get(item, "confidence", PyNone))
    THEN Exc("ValueError", "'confidence' must be a number", index, <<>>)
  ELSE NoExc

\* for index, item in enumerate(data), from position i (Python index i - 1)
RECURSIVE ValidateFrom(_, _)
ValidateFrom(data, i) ==
  IF i > Len(data.l)
    THEN Returned(data.l)
  ELSE IF CheckItem(data.l[i], i - 1) # NoExc
    THEN Raised(CheckItem(data.l[i], i - 1))
  ELSE ValidateFrom(data, i + 1)

\* validate_ai_response returning after the first item of the loop
validate_ai_response_FirstOnly(data) ==
  IF data.t # "list"
    THEN Raised(Exc("ValueError", "AI response must be a list of clauses", -1, <<>>))
  ELSE IF data.l # <<>> /\ CheckItem(data.l[1], 0) # NoExc
    THEN Raised(CheckItem(data.l[1], 0))
  ELSE Returned(data.l)

\* validate_ai_response repairing what it accepts: a risk score above 10 is
\* clamped to 10
validate_ai_response_Clamping(data) ==
  IF data.t # "list"
    THEN Raised(Exc("ValueError", "AI response must be a list of clauses", -1, <<>>))
  ELSE IF ValidateFrom(data, 1).raised
    THEN ValidateFrom(data, 1)
  ELSE Returned([i \in 1..Len(data.l) |->
                  IF Hundredths(data.l[i].d["risk_score"]) > 1000
                    THEN With(data.l[i], "risk_score", PyInt(10))
                    ELSE data.l[i]])

validate_ai_response(data) ==
  IF data.t # "list"
    THEN Raised(Exc("ValueError", "AI response must be a list of clauses", -1, <<>>))
    ELSE ValidateFrom(data, 1)

\* ----------------------------------------------------------- analytics
RECURSIVE SumScores(_, _)
SumScores(clauses, i) ==
  IF i > Len(clauses) THEN 0
  ELSE Hundredths(Get(clauses[i], "risk_score", PyInt(0))) + SumScores(clauses, i + 1)

\* Round2 cutting the digits off instead of rounding
Round2_Truncate(total, n) == total \div n

\* round(total / n, 2), total in hundredths: the nearest whole number of
\* hundredths, a tie going to the even one
Round2(total, n) ==
  LET q == total \div n
      r == total % n
  IN IF 2 * r < n THEN q
     ELSE IF 2 * r > n THEN q + 1
     ELSE IF q % 2 = 0 THEN q ELSE q + 1

AllNumbers(clauses) ==
  \A i \in 1..Len(clauses) : IsNumber(Get(clauses[i], "risk_score", PyInt(0)))

\* compute_overall_risk without the guard of the empty list
compute_overall_risk_NoEmptyGuard(clauses) ==
  IF clauses = <<>> THEN Raised(Exc("ZeroDivisionError", "division by zero", -1, <<>>))
  ELSE IF ~AllNumbers(clauses) THEN Raised(Exc("TypeError", "unsupported operand", -1, <<>>))
  ELSE Returned(PyFloat(Round2(SumScores(clauses, 1), Len(clauses))))

compute_overall_risk(clauses) ==
  IF clauses = <<>> THEN Returned(PyFloat(0))
  ELSE IF ~AllNumbers(clauses) THEN Raised(Exc("TypeError", "unsupported operand", -1, <<>>))
  ELSE Returned(PyFloat(Round2(SumScores(clauses, 1), Len(clauses))))

ScoreKey(x) == Hundredths(Get(x, "risk_score", PyInt(0)))

\* insert x behind every element whose key is at least x's key
RECURSIVE InsertDesc(_, _)
InsertDesc(sorted, x) ==
  IF sorted = <<>> THEN <<x>>
  ELSE IF ScoreKey(Head(sorted)) >= ScoreKey(x)
    THEN <<Head(sorted)>> \o InsertDesc(Tail(sorted), x)
  ELSE <<x>> \o sorted

\* sorted(clauses, key=..., reverse=True): stable, equal keys keep their order
RECURSIVE SortedDesc(_, _)
SortedDesc(clauses, n) ==
  IF n = 0 THEN <<>> ELSE InsertDesc(SortedDesc(clauses, n - 1), clauses[n])

\* compute_highest_risk_clause sorting in ascending order and taking the last
\* element: of equal scores the last one wins
compute_highest_risk_clause_AscendingLast(clauses) ==
  IF clauses = <<>> THEN Returned(EmptyDict)
  ELSE IF ~AllNumbers(clauses) THEN Raised(Exc("TypeError", "'<' not supported", -1, <<>>))
  ELSE Returned(clauses[CHOOSE i \in 1..Len(clauses) :
                          /\ \A j \in 1..Len(clauses) : ScoreKey(clauses[j]) <= ScoreKey(clauses[i])
                          /\ \A j \in (i + 1)..Len(clauses) :
                               ScoreKey(clauses[j]) < ScoreKey(clauses[i])])

compute_highest_risk_clause(clauses) ==
  IF clauses = <<>> THEN Returned(EmptyDict)
  ELSE IF ~AllNumbers(clauses) THEN Raised(Exc("TypeError", "'<' not supported", -1, <<>>))
  ELSE Returned(SortedDesc(clauses, Len(clauses))[1])

\* a value that can be a dict key
Hashable(v) == v.t \notin {"list", "dict"}

\* Increment storing 1 instead of adding 1
Increment_Reset(distribution, risk_type) ==
  [k \in DOMAIN distribution \cup {risk_type} |->
     IF k = risk_type THEN 1 ELSE distribution[k]]

\* distribution[risk_type] = distribution.get(risk_type, 0) + 1
Increment(distribution, risk_type) ==
  [k \in DOMAIN distribution \cup {risk_type} |->
     (IF k \in DOMAIN distribution THEN distribution[k] ELSE 0)
       + (IF k = risk_type THEN 1 ELSE 0)]

RECURSIVE DistributionFrom(_, _, _)
DistributionFrom(clauses, i, distribution) ==
  IF i > Len(clauses) THEN Returned(distribution)
  ELSE LET risk_type == Get(clauses[i], "risk_type", PyStr("Unknown"))
       IN IF ~Hashable(risk_type)
            THEN Raised(Exc("TypeError", "unhashable type", -1, <<>>))
            ELSE DistributionFrom(clauses, i + 1, Increment(distribution, risk_type))

\* compute_risk_distribution reading a key no record has: every record is
\* counted under the default label
compute_risk_distribution_WrongKey(clauses) ==
  DistributionFrom([i \in 1..Len(clauses) |-> Without(clauses[i], {"risk_type"})], 1, <<>>)

compute_risk_distribution(clauses) == DistributionFrom(clauses, 1, <<>>)

\* ----------------------------------------------------- analyze_contract
VARIABLES
  pc,                 \* the stage the run is in
  raw_result,         \* what the AI pipeline returned
  validated_clauses,  \* what validate_ai_response returned
  result,             \* the report returned to the caller
  error,              \* the exception raised to the caller
  trace,              \* the stages entered so far, in order
  calls,              \* invocations of ai_pipeline.extract_and_analyze
  runs,               \* the locals of each of several concurrent calls
  app                 \* the application: session state, widgets, environment

vars == <<pc, raw_result, validated_clauses, result, error, trace, calls>>

Unset == [t |-> "unset", l |-> <<>>]

Report(overall, highest, distribution, clauses) ==
  [t |-> "dict", overall_risk_score |-> overall, highest_risk_clause |-> highest,
   risk_distribution |-> distribution, clauses |-> clauses]
NoReport ==
  [t |-> "unset", overall_risk_score |-> PyNone, highest_risk_clause |-> EmptyDict,
   risk_distribution |-> <<>>, clauses |-> <<>>]

\* raise ty(f"{prefix}: {str(cause)}") from cause
Wrapped(ty, prefix, cause) == [type |-> ty, prefix |-> prefix, cause |-> cause]
NoError == Wrapped("", "", NoExc)

Enter(stage) ==
  /\ pc' = stage
  /\ trace' = Append(trace, stage)

Fail(e) ==
  /\ Enter("FAILED")
  /\ error' = e

\* ------------------------------------------- concurrent analyze_contract
\* number of concurrent calls of analyze_contract
NumRuns == 2
\* longest list the pipeline returns to a concurrent call
ConcLen == 1

Runs == 1..NumRuns

\* the locals of a call that has not started
RunInit ==
  [pc |-> "START", raw_result |-> Unset, validated_clauses |-> Unset,
   result |-> NoReport, error |-> NoError]

\* the application before its first script run, with the environment's API
\* key: st.session_state is empty, no file is uploaded, nothing is rendered
AppStart(key) ==
  [pc |-> "idle", initialized |-> FALSE, analysis_result |-> "None", analyzing |-> FALSE,
   uploaded_file |-> "None", api_key |-> key, api_key_input |-> "", event |-> "none",
   rendered |-> FALSE, analyze_enabled |-> FALSE, another_shown |-> FALSE,
   last_attempt |-> "none"]

\* what lies outside a single call of analyze_contract
rest == <<runs, app>>

Init ==
  /\ runs = [r \in Runs |-> RunInit]
  /\ app = AppStart("set")
  /\ pc = "START"
  /\ raw_result = Unset
  /\ validated_clauses = Unset
  /\ result = NoReport
  /\ error = NoError
  /\ trace = <<>>
  /\ calls = 0

\* the except clause of step 1 catching no ValueError: it reaches the caller
\* as it was raised
UpstreamFailure_ValueErrorPasses(e) ==
  IF e.exc = "ValueError" THEN Wrapped("ValueError", e.text, NoExc)
  ELSE Wrapped("RuntimeError", "AI pipeline execution failed", e)

\* the except clause of step 1
UpstreamFailure(e) == Wrapped("RuntimeError", "AI pipeline execution failed", e)

\* analyze_contract is called and calls the pipeline
Start ==
  /\ pc = "START"
  /\ Enter("EXTRACT_CLAUSES")
  /\ calls' = calls + 1
  /\ UNCHANGED <<raw_result, validated_clauses, result, error>>
  /\ UNCHANGED rest

\* first stage of the pipeline: the model segments the text, or the call raises
ExtractClauses ==
  /\ pc = "EXTRACT_CLAUSES"
  /\ \/ /\ Enter("ANALYZE_RISK")
        /\ UNCHANGED error
     \/ \E ty \in PipelineExceptions : Fail(UpstreamFailure(Exc(ty, "", -1, <<>>)))
  /\ UNCHANGED <<raw_result, validated_clauses, result, calls>>
  /\ UNCHANGED rest

\* len(raw_result) of the logging line inside the try block
HasLen(v) == v.t \in {"list", "str", "dict"}

\* second stage of the pipeline: the model returns its judgments, or the call
\* raises; the returned value is logged with its length
AnalyzeRisk ==
  /\ pc = "ANALYZE_RISK"
  /\ \/ \E v \in RawValues :
          IF HasLen(v)
            THEN /\ raw_result' = v
                 /\ Enter("VALIDATE")
                 /\ UNCHANGED error
            ELSE /\ raw_result' = v
                 /\ Fail(UpstreamFailure(Exc("TypeError", "has no len()", -1, <<>>)))
     \/ /\ \E ty \in PipelineExceptions : Fail(UpstreamFailure(Exc(ty, "", -1, <<>>)))
        /\ UNCHANGED raw_result
  /\ UNCHANGED <<validated_clauses, result, calls>>
  /\ UNCHANGED rest

\* the except clause of step 2
ValidationFailure(e) == Wrapped("ValueError", "AI response validation failed", e)

\* Validate going on to the analytics with the unvalidated response
Validate_Degrade ==
  /\ pc = "VALIDATE"
  /\ validated_clauses' = PyListOf(raw_result.l)
  /\ Enter("AGGREGATE")
  /\ UNCHANGED <<raw_result, result, error, calls>>
  /\ UNCHANGED rest

\* step 2: validate the AI response
Validate ==
  /\ pc = "VALIDATE"
  /\ LET r == validate_ai_response(raw_result)
     IN IF r.raised
          THEN /\ Fail(ValidationFailure(r.exc))
               /\ UNCHANGED validated_clauses
          ELSE /\ validated_clauses' = PyListOf(r.value)
               /\ Enter("AGGREGATE")
               /\ UNCHANGED error
  /\ UNCHANGED <<raw_result, result, calls>>
  /\ UNCHANGED rest

\* ComputationFault raised as a ValueError
ComputationFault_AsValueError(e) == Wrapped("ValueError", "Failed to compute analytics", e)

\* the except clause of step 3
ComputationFault(e) == Wrapped("RuntimeError", "Failed to compute analytics", e)

\* steps 3 and 4: compute the analytics and return the report
Aggregate ==
  /\ pc = "AGGREGATE"
  /\ LET clauses == validated_clauses.l
         overall == compute_overall_risk(clauses)
         highest == compute_highest_risk_clause(clauses)
         distribution == compute_risk_distribution(clauses)
     IN IF overall.raised THEN Fail(ComputationFault(overall.exc)) /\ UNCHANGED result
        ELSE IF highest.raised THEN Fail(ComputationFault(highest.exc)) /\ UNCHANGED result
        ELSE IF distribution.raised
          THEN Fail(ComputationFault(distribution.exc)) /\ UNCHANGED result
        ELSE /\ result' = Report(overall.value, highest.value, distribution.value, clauses)
             /\ Enter("DONE")
             /\ UNCHANGED error
  /\ UNCHANGED <<raw_result, validated_clauses, calls>>
  /\ UNCHANGED rest

Next ==
  \/ Start
  \/ ExtractClauses
  \/ AnalyzeRisk
  \/ Validate
  \/ Aggregate

Spec == Init /\ [][Next]_vars

\* ------------------------------------------- concurrent analyze_contract
ConcItems ==
  {Clause(PyInt(1), PyStr("Liability")), Clause(PyInt(0), PyStr("Financial")),
   Without(BaseClause, {"confidence"})}

\* what the pipeline returns to a concurrent call
ConcValues == {PyListOf(s) : s \in SeqsUpTo(ConcItems, ConcLen)}

\* step 1 of call r: the pipeline returns a value or raises
RunCallPipeline(r) ==
  /\ runs[r].pc = "START"
  /\ \/ \E v \in ConcValues :
          runs' = [runs EXCEPT ![r].raw_result = v,
                               ![r].pc = IF HasLen(v) THEN "VALIDATE" ELSE "FAILED",
                               ![r].error =
                                 IF HasLen(v) THEN NoError
                                 ELSE UpstreamFailure(Exc("TypeError", "has no len()", -1, <<>>))]
     \/ runs' = [runs EXCEPT ![r].pc = "FAILED",
                             ![r].error = UpstreamFailure(Exc("ConnectionError", "", -1, <<>>))]
  /\ UNCHANGED <<vars, app>>

\* step 2 of call r
RunValidate(r) ==
  /\ runs[r].pc = "VALIDATE"
  /\ LET v == validate_ai_response(runs[r].raw_result)
     IN runs' = IF v.raised
                  THEN [runs EXCEPT ![r].pc = "FAILED", ![r].error = ValidationFailure(v.exc)]
                  ELSE [runs EXCEPT ![r].pc = "AGGREGATE",
                                    ![r].validated_clauses = PyListOf(v.value)]
  /\ UNCHANGED <<vars, app>>

\* the locals of a call after steps 3 and 4 with the given analytics
Aggregated(run, overall, highest, distribution) ==
  IF overall.raised THEN [run EXCEPT !.pc = "FAILED", !.error = ComputationFault(overall.exc)]
  ELSE IF highest.raised
    THEN [run EXCEPT !.pc = "FAILED", !.error = ComputationFault(highest.exc)]
  ELSE IF distribution.raised
    THEN [run EXCEPT !.pc = "FAILED", !.error = ComputationFault(distribution.exc)]
  ELSE [run EXCEPT !.pc = "DONE",
                   !.result = Report(overall.value, highest.value, distribution.value,
                                     run.validated_clauses.l)]

\* the distributions the calls that are done have returned, merged
RECURSIVE MergedDistribution(_)
MergedDistribution(n) ==
  IF n = 0 THEN <<>>
  ELSE LET rec == MergedDistribution(n - 1)
           d == runs[n].result.risk_distribution
       IN [k \in DOMAIN rec \cup DOMAIN d |->
             (IF k \in DOMAIN rec THEN rec[k] ELSE 0) + (IF k \in DOMAIN d THEN d[k] ELSE 0)]

\* RunAggregate with `distribution` a module-level dict the calls share
RunAggregate_SharedDistribution(r) ==
  /\ runs[r].pc = "AGGREGATE"
  /\ LET clauses == runs[r].validated_clauses.l
     IN runs' = [runs EXCEPT ![r] =
                   Aggregated(runs[r], compute_overall_risk(clauses),
                              compute_highest_risk_clause(clauses),
                              DistributionFrom(clauses, 1, MergedDistribution(NumRuns)))]
  /\ UNCHANGED <<vars, app>>

\* steps 3 and 4 of call r
RunAggregate(r) ==
  /\ runs[r].pc = "AGGREGATE"
  /\ LET clauses == runs[r].validated_clauses.l
     IN runs' = [runs EXCEPT ![r] =
                   Aggregated(runs[r], compute_overall_risk(clauses),
                              compute_highest_risk_clause(clauses),
                              compute_risk_distribution(clauses))]
  /\ UNCHANGED <<vars, app>>

NextRuns ==
  \/ \E r \in Runs : RunCallPipeline(r)
  \/ \E r \in Runs : RunValidate(r)
  \/ \E r \in Runs : RunAggregate(r)

SpecRuns == Init /\ [][NextRuns]_runs

\* ------------------------------------------------------- app.py: main
\* Streamlit runs main() from the top after every event; a script run is
\* modelled in four steps so that the state between them can be observed.
Files == {"F1", "F2"}
\* results of analyze_contract that validate_analysis_result accepts
ValidResults == {"R1", "R2"}
\* how a call of analyze_contract and validate_analysis_result can end
AttemptOutcomes == {"valid", "invalid", "ValueError", "Exception"}
\* what the user types into the sidebar's key field
KeyInputs == {"", "key", "blank"}

\* the events that start a script run, with what the widgets then hold
Events == {"none", "upload", "sidebar", "analyze", "another"}

\* lines 445-497: the key check, the session state, the upload section and
\* the sidebar
ScriptTop ==
  /\ app.pc = "idle"
  /\ \E ev \in Events, file \in Files \cup {"None"}, input \in KeyInputs :
       /\ ev = "analyze" => app.analyze_enabled
       /\ ev = "another" => app.another_shown
       /\ ev # "upload" => file = app.uploaded_file
       /\ ev # "sidebar" => input = app.api_key_input
       /\ ev \in {"upload", "sidebar"} => app.rendered
       /\ app' =
            IF app.api_key # "set"
              THEN [app EXCEPT !.rendered = FALSE, !.analyze_enabled = FALSE,
                               !.another_shown = FALSE, !.event = "none"]
              ELSE [app EXCEPT !.pc = "button",
                               !.rendered = TRUE,
                               !.initialized = TRUE,
                               !.uploaded_file = file,
                               !.api_key_input = input,
                               !.api_key = IF input = "key" THEN "set"
                                           ELSE IF input = "blank" THEN "empty"
                                           ELSE app.api_key,
                               !.event = ev]
  /\ UNCHANGED <<vars, runs>>

\* lines 498-510: the Analyze button
AnalyzeButton ==
  /\ app.pc = "button"
  /\ app' =
       IF app.event = "analyze" /\ app.uploaded_file # "None"
         THEN IF app.api_key # "set"
                THEN [app EXCEPT !.pc = "idle", !.event = "none",
                                 !.analyze_enabled = TRUE, !.another_shown = FALSE]
                ELSE [app EXCEPT !.pc = "processing", !.analyzing = TRUE,
                                 !.analysis_result = "None", !.analyze_enabled = TRUE]
         ELSE [app EXCEPT !.pc = "processing",
                          !.analyze_enabled = (app.uploaded_file # "None")]
  /\ UNCHANGED <<vars, runs>>

\* the session state after an attempt with the given outcome
Attempted(a, outcome, res) ==
  IF outcome = "valid"
    THEN [a EXCEPT !.analysis_result = res, !.analyzing = FALSE, !.last_attempt = outcome]
    ELSE [a EXCEPT !.analyzing = FALSE, !.last_attempt = outcome]

\* Processing whose `except Exception` clause leaves analyzing set
Processing_ExceptionKeepsAnalyzing ==
  /\ app.pc = "processing"
  /\ IF app.analyzing /\ app.uploaded_file # "None"
       THEN \E outcome \in AttemptOutcomes, res \in ValidResults :
              app' = IF outcome = "Exception"
                       THEN [app EXCEPT !.pc = "results", !.last_attempt = outcome]
                       ELSE [Attempted(app, outcome, res) EXCEPT !.pc = "results"]
       ELSE app' = [app EXCEPT !.pc = "results"]
  /\ UNCHANGED <<vars, runs>>

\* lines 512-552: processing
Processing ==
  /\ app.pc = "processing"
  /\ IF app.analyzing /\ app.uploaded_file # "None"
       THEN \E outcome \in AttemptOutcomes, res \in ValidResults :
              app' = [Attempted(app, outcome, res) EXCEPT !.pc = "results"]
       ELSE app' = [app EXCEPT !.pc = "results"]
  /\ UNCHANGED <<vars, runs>>

\* lines 554-574: the results and the buttons under them
Results ==
  /\ app.pc = "results"
  /\ app' =
       IF app.analysis_result # "None"
         THEN IF app.event = "another"
                THEN [app EXCEPT !.pc = "idle", !.event = "none", !.analysis_result = "None",
                                 !.analyzing = FALSE, !.another_shown = FALSE,
                                 !.analyze_enabled = FALSE]
                ELSE [app EXCEPT !.pc = "idle", !.event = "none", !.another_shown = TRUE]
         ELSE [app EXCEPT !.pc = "idle", !.event = "none", !.another_shown = FALSE]
  /\ UNCHANGED <<vars, runs>>

NextApp ==
  \/ ScriptTop
  \/ AnalyzeButton
  \/ Processing
  \/ Results

InitApp ==
  /\ runs = [r \in Runs |-> RunInit]
  /\ app \in {AppStart(key) : key \in {"set", "unset"}}
  /\ pc = "START"
  /\ raw_result = Unset
  /\ validated_clauses = Unset
  /\ result = NoReport
  /\ error = NoError
  /\ trace = <<>>
  /\ calls = 0

SpecApp == InitApp /\ [][NextApp]_app

\* ================================================================ claims
\* the pipeline has returned a list
ReturnedList == raw_result.t = "list"
\* the run has left the VALIDATE stage
PastValidate == pc \in {"AGGREGATE", "DONE", "FAILED"} /\ "VALIDATE" \in {trace[i] : i \in 1..Len(trace)}
\* the stage a failed run failed in
FailedStage == trace[Len(trace) - 1]
ReportedIndex == error.cause.index

NumericKinds == {"int", "float", "bool"}
\* a record that lacks a required field or whose risk_score or confidence is
\* not a number
LacksOrNonNumeric(item) ==
  /\ item.t = "dict"
  /\ \/ \E k \in KeySet : k \notin DOMAIN item.d
     \/ \E k \in {"risk_score", "confidence"} :
          k \in DOMAIN item.d /\ item.d[k].t \notin NumericKinds
\* an element the validator has to reject
Defective(item) == item.t # "dict" \/ LacksOrNonNumeric(item)

IsValidationError ==
  /\ pc = "FAILED"
  /\ FailedStage = "VALIDATE"
  /\ error.type = "ValueError"
  /\ error.prefix = "AI response validation failed"
  /\ error.cause.exc = "ValueError"

\* C1 as stated: every record of the returned list that lacks a required
\* field or has a non-numeric risk_score or confidence has its own index
\* named by the validation error, and no report is produced.
C1_EveryDefectiveRecordNamed ==
  (ReturnedList /\ PastValidate) =>
    \A i \in 1..Len(raw_result.l) :
      LacksOrNonNumeric(raw_result.l[i]) =>
        /\ IsValidationError
        /\ ReportedIndex = i - 1
        /\ result = NoReport

\* C1 as amended: if any record lacks a required field or has a non-numeric
\* risk_score or confidence, the run fails with a validation error whose
\* message names the index of the first defective element of the list (the
\* lowest-index element that is not a mapping, lacks a field or has a
\* non-numeric risk_score or confidence), and no report is produced.
C1_FirstDefectiveNamed ==
  (ReturnedList /\ PastValidate /\ \E i \in 1..Len(raw_result.l) : LacksOrNonNumeric(raw_result.l[i])) =>
    /\ IsValidationError
    /\ ReportedIndex + 1 \in 1..Len(raw_result.l)
    /\ Defective(raw_result.l[ReportedIndex + 1])
    /\ \A j \in 1..ReportedIndex : ~Defective(raw_result.l[j])
    /\ result = NoReport

\* a failed run whose list has a well-formed record before a record without
\* 'confidence' : index 1 is named
C1_Witness ==
  /\ pc = "FAILED"
  /\ ReturnedList
  /\ Len(raw_result.l) = 3
  /\ ~Defective(raw_result.l[1])
  /\ "confidence" \notin DOMAIN raw_result.l[2].d
  /\ raw_result.l[2].t = "dict"
  /\ ReportedIndex = 1
  /\ error.cause.keys = <<"confidence">>

\* C2: all or nothing: a list with a defective element at any position never
\* gets past validation and never yields a report.
C2_AllOrNothing ==
  (ReturnedList /\ \E i \in 1..Len(raw_result.l) : Defective(raw_result.l[i])) =>
    /\ pc \in {"VALIDATE", "FAILED"}
    /\ validated_clauses = Unset
    /\ result = NoReport
    /\ pc = "FAILED" => IsValidationError

\* a failed run of three records of which only the last is defective
C2_Witness ==
  /\ pc = "FAILED"
  /\ ReturnedList
  /\ Len(raw_result.l) = 3
  /\ ~Defective(raw_result.l[1])
  /\ ~Defective(raw_result.l[2])
  /\ Defective(raw_result.l[3])
  /\ result = NoReport

StageOrder == <<"EXTRACT_CLAUSES", "ANALYZE_RISK", "VALIDATE", "AGGREGATE", "DONE">>

C3_StagesInOrder ==
  /\ \E k \in 0..Len(StageOrder) :
       \/ trace = SubSeq(StageOrder, 1, k)
       \/ k \in 1..4 /\ trace = Append(SubSeq(StageOrder, 1, k), "FAILED")
  /\ pc = (IF trace = <<>> THEN "START" ELSE trace[Len(trace)])
  /\ calls = (IF trace = <<>> THEN 0 ELSE 1)
  /\ pc \in {"AGGREGATE", "DONE"} =>
       /\ ReturnedList
       /\ validated_clauses = raw_result
       /\ \A i \in 1..Len(raw_result.l) : ~Defective(raw_result.l[i])
  /\ pc = "DONE" <=> result # NoReport
  /\ pc = "FAILED" <=> error # NoError

\* a run that is done or has failed takes no further step
C3_Terminal == pc \in {"DONE", "FAILED"} => vars' = vars
\* the pipeline is invoked once, at the start of the run
C3_InvokedOnce == calls' = calls \/ (calls = 0 /\ calls' = 1 /\ pc = "START")

\* C3: the stages are entered in the order EXTRACT_CLAUSES, ANALYZE_RISK,
\* VALIDATE, AGGREGATE, DONE, each at most once and after its predecessor,
\* with FAILED entered from a stage only; the pipeline is invoked once and not
\* again after a failure; the analytics run on validated data only; DONE and
\* FAILED are terminal.
C3_StageMachine ==
  /\ []C3_StagesInOrder
  /\ [][C3_Terminal]_vars
  /\ [][C3_InvokedOnce]_vars

\* a run that failed in the AGGREGATE stage, after the other stages succeeded
C3_Witness ==
  /\ trace = <<"EXTRACT_CLAUSES", "ANALYZE_RISK", "VALIDATE", "AGGREGATE", "FAILED">>
  /\ calls = 1
  /\ error.type = "RuntimeError"

Kinds == {"upstream", "validation", "computation"}
\* the kind of the failure of a failed run
FailedKind ==
  CASE FailedStage \in {"EXTRACT_CLAUSES", "ANALYZE_RISK"} -> "upstream"
    [] FailedStage = "VALIDATE" -> "validation"
    [] FailedStage = "AGGREGATE" -> "computation"
\* the error type the handler of a kind raises
TypeRaised(k) ==
  CASE k = "upstream" -> UpstreamFailure(NoExc).type
    [] k = "validation" -> ValidationFailure(NoExc).type
    [] k = "computation" -> ComputationFault(NoExc).type
PrefixRaised(k) ==
  CASE k = "upstream" -> UpstreamFailure(NoExc).prefix
    [] k = "validation" -> ValidationFailure(NoExc).prefix
    [] k = "computation" -> ComputationFault(NoExc).prefix

NotAListOfRecords ==
  \/ raw_result.t \in {"NoneType", "int", "str", "dict"}
  \/ ReturnedList /\ \E i \in 1..Len(raw_result.l) : raw_result.l[i].t # "dict"

\* C5: when the pipeline returns a value that is not a list of records, the
\* run fails with a validation error and never with an upstream failure.
C5_NonListIsValidationError ==
  NotAListOfRecords =>
    /\ pc \in {"VALIDATE", "FAILED"}
    /\ pc = "FAILED" => IsValidationError

\* the sum of the counts of a distribution
RECURSIVE SumCounts(_)
SumCounts(distribution) ==
  IF DOMAIN distribution = {} THEN 0
  ELSE LET k == CHOOSE x \in DOMAIN distribution : TRUE
       IN distribution[k] + SumCounts([x \in DOMAIN distribution \ {k} |-> distribution[x]])

\* C6: in every successful run the counts of risk_distribution sum to the
\* number of records in clauses.
C6_CountsSumToLength ==
  pc = "DONE" => SumCounts(result.risk_distribution) = Len(result.clauses)

\* a report of three clauses of which two share their risk type
C6_Witness ==
  /\ pc = "DONE"
  /\ Len(result.clauses) = 3
  /\ Cardinality(DOMAIN result.risk_distribution) = 2
  /\ SumCounts(result.risk_distribution) = 3

\* the risk score of a validated record, in hundredths
ScoreOf(item) == IF item.d["risk_score"].t = "float" THEN item.d["risk_score"].n
                 ELSE 100 * item.d["risk_score"].n
IsMaxAt(clauses, i) == \A j \in 1..Len(clauses) : ScoreOf(clauses[j]) <= ScoreOf(clauses[i])

\* C7: for a non-empty validated sequence highest_risk_clause is the record
\* at the lowest index among those with the maximum risk score: of records
\* that tie for the maximum, the first one.
C7_FirstOfMaximum ==
  (pc = "DONE" /\ result.clauses # <<>>) =>
    \E i \in 1..Len(result.clauses) :
      /\ IsMaxAt(result.clauses, i)
      /\ \A j \in 1..(i - 1) : ScoreOf(result.clauses[j]) < ScoreOf(result.clauses[i])
      /\ result.highest_risk_clause = result.clauses[i]

\* a report in which the second and the third clause tie for the maximum and
\* are different records
C7_Witness ==
  /\ pc = "DONE"
  /\ Len(result.clauses) = 3
  /\ ScoreOf(result.clauses[1]) < ScoreOf(result.clauses[2])
  /\ ScoreOf(result.clauses[2]) = ScoreOf(result.clauses[3])
  /\ result.clauses[2] # result.clauses[3]
  /\ result.highest_risk_clause = result.clauses[2]

RECURSIVE TotalScore(_)
TotalScore(clauses) ==
  IF clauses = <<>> THEN 0 ELSE ScoreOf(Head(clauses)) + TotalScore(Tail(clauses))

Abs(x) == IF x < 0 THEN -x ELSE x

\* C8: for a non-empty validated sequence of n records overall_risk_score is
\* the mean of the n risk scores rounded to 2 decimal places: in hundredths,
\* a whole number at most half a hundredth away from the mean.
C8_MeanRoundedToHundredths ==
  (pc = "DONE" /\ result.clauses # <<>>) =>
    LET n == Len(result.clauses)
        h == result.overall_risk_score.n
    IN /\ result.overall_risk_score.t = "float"
       /\ 2 * Abs(h * n - TotalScore(result.clauses)) <= n

\* a report of three clauses whose mean, 2/3, is rounded up to 0.67
C8_Witness ==
  /\ pc = "DONE"
  /\ Len(result.clauses) = 3
  /\ TotalScore(result.clauses) = 200
  /\ result.overall_risk_score = PyFloat(67)

StringFields == {"clause", "risk_type", "reasoning", "suggested_revision"}
NumberFields == {"risk_score", "confidence"}
\* a record with the six fields, each of its kind
WellTyped(item) ==
  /\ item.t = "dict"
  /\ KeySet \subseteq DOMAIN item.d
  /\ \A k \in StringFields : item.d[k].t = "str"
  /\ \A k \in NumberFields : item.d[k].t \in {"int", "float"}

\* C10: every record of a returned report has the six fields, the four
\* strings being strings and the two numbers being numbers and neither
\* booleans nor null; a record with a field of another kind makes the run
\* fail with a validation error.
C10_EveryRecordWellTyped ==
  /\ pc = "DONE" => \A i \in 1..Len(result.clauses) : WellTyped(result.clauses[i])
  /\ (ReturnedList /\ PastValidate /\ \E i \in 1..Len(raw_result.l) : ~WellTyped(raw_result.l[i]))
       => IsValidationError

\* validate_ai_response has raised
ValidatorRaised == pc = "FAILED" /\ FailedStage = "VALIDATE"

\* C11 as stated: every failure of validate_ai_response, whatever its cause,
\* is of the one error kind and its message embeds the index of the offending
\* record, the lowest-index defective one.
C11_EveryFailureEmbedsIndex ==
  ValidatorRaised =>
    /\ error.cause.exc = "ValueError"
    /\ ReportedIndex + 1 \in 1..Len(raw_result.l)
    /\ Defective(raw_result.l[ReportedIndex + 1])
    /\ \A j \in 1..ReportedIndex : ~Defective(raw_result.l[j])

\* C11 as amended: every failure of validate_ai_response is a ValueError; a
\* failure about a record (not a mapping, missing fields, non-numeric
\* risk_score or confidence) embeds that record's index, which is the lowest
\* index of a defective record; the failure for an input that is not a list
\* embeds no index.
C11_RecordFailuresEmbedLowestIndex ==
  ValidatorRaised =>
    /\ error.cause.exc = "ValueError"
    /\ error.type = "ValueError"
    /\ ~ReturnedList =>
         /\ ReportedIndex = -1
         /\ error.cause.text = "AI response must be a list of clauses"
    /\ ReturnedList =>
         /\ ReportedIndex + 1 \in 1..Len(raw_result.l)
         /\ Defective(raw_result.l[ReportedIndex + 1])
         /\ \A j \in 1..ReportedIndex : ~Defective(raw_result.l[j])

\* a failure for a list whose second and third records are both defective,
\* for different causes: index 1 is reported
C11_Witness ==
  /\ ValidatorRaised
  /\ ReturnedList
  /\ Len(raw_result.l) = 3
  /\ ~Defective(raw_result.l[1])
  /\ raw_result.l[2].t # "dict"
  /\ LacksOrNonNumeric(raw_result.l[3])
  /\ ReportedIndex = 1
  /\ error.cause.text = "is not a dictionary"

\* C12: on success validate_ai_response returns the sequence it was given,
\* with no record added, removed, reordered or altered and no value coerced
\* or clamped (a risk score of 15 and a confidence of 2.0 stay as they are),
\* and the clauses of the report are that sequence in its order.
C12_SequencePassedThrough ==
  /\ pc \in {"AGGREGATE", "DONE"} => validated_clauses = raw_result
  /\ (pc = "FAILED" /\ FailedStage = "AGGREGATE") => validated_clauses = raw_result
  /\ pc = "DONE" =>
       /\ Len(result.clauses) = Len(raw_result.l)
       /\ \A i \in 1..Len(raw_result.l) : result.clauses[i] = raw_result.l[i]

\* a report whose second clause has the risk score 15 and the confidence 2.0
\* and whose clauses are three different records
C12_Witness ==
  /\ pc = "DONE"
  /\ Len(result.clauses) = 3
  /\ result.clauses[2].d["risk_score"] = PyInt(15)
  /\ result.clauses[2].d["confidence"] = PyFloat(200)
  /\ result.clauses[1] # result.clauses[3]
  /\ result.clauses[1] # result.clauses[2]
  /\ result.clauses = raw_result.l

\* C14: the computation fault is unreachable from validated input: whatever
\* validate_ai_response accepts, the AGGREGATE stage raises nothing and the
\* run reaches DONE.
C14_NoComputationFault ==
  /\ pc = "FAILED" => FailedStage # "AGGREGATE"
  /\ pc = "FAILED" => error.prefix # "Failed to compute analytics"

\* the risk type of a validated record
RiskTypeOf(item) == item.d["risk_type"]
ObservedRiskTypes(clauses) == {RiskTypeOf(clauses[i]) : i \in 1..Len(clauses)}

\* C15: the risk_distribution of a report has one key per distinct risk_type
\* of its clauses and no other key, and the count under a key is the number
\* of clauses with exactly that risk_type; labels that differ in case are
\* different keys, and "Unknown" is a key only if a clause carries that label.
C15_ExactCountsPerLabel ==
  pc = "DONE" =>
    /\ DOMAIN result.risk_distribution = ObservedRiskTypes(result.clauses)
    /\ \A k \in DOMAIN result.risk_distribution :
         result.risk_distribution[k] =
           Cardinality({i \in 1..Len(result.clauses) : RiskTypeOf(result.clauses[i]) = k})
    /\ PyStr("Unknown") \in DOMAIN result.risk_distribution =>
         \E i \in 1..Len(result.clauses) : RiskTypeOf(result.clauses[i]) = PyStr("Unknown")

\* a report with two clauses labelled "Liability" and one labelled "liability"
C15_Witness ==
  /\ pc = "DONE"
  /\ Len(result.clauses) = 3
  /\ DOMAIN result.risk_distribution = {PyStr("Liability"), PyStr("liability")}
  /\ result.risk_distribution[PyStr("Liability")] = 2
  /\ result.risk_distribution[PyStr("liability")] = 1

\* the pipeline call has raised: the run failed in a stage of the pipeline
\* before any value was returned
PipelineRaised ==
  /\ pc = "FAILED"
  /\ FailedStage \in {"EXTRACT_CLAUSES", "ANALYZE_RISK"}
  /\ raw_result = Unset

ReportOfResponse(report, response) ==
  LET clauses == response.l
      n == Len(clauses)
  IN /\ report.t = "dict"
     /\ report.clauses = clauses
     /\ report.overall_risk_score.t = "float"
     /\ 2 * Abs(report.overall_risk_score.n * n - TotalScore(clauses)) <= n
     /\ n = 0 => report.overall_risk_score.n = 0 /\ report.highest_risk_clause = EmptyDict
     /\ n > 0 => \E i \in 1..n :
                   /\ IsMaxAt(clauses, i)
                   /\ \A j \in 1..(i - 1) : ScoreOf(clauses[j]) < ScoreOf(clauses[i])
                   /\ report.highest_risk_clause = clauses[i]
     /\ DOMAIN report.risk_distribution = ObservedRiskTypes(clauses)
     /\ \A k \in DOMAIN report.risk_distribution :
          report.risk_distribution[k] =
            Cardinality({i \in 1..n : RiskTypeOf(clauses[i]) = k})

\* what a call has reached depends on its own response only
C13_OwnResponseOnly ==
  \A r \in Runs :
    /\ runs[r].pc = "DONE" =>
         /\ runs[r].raw_result.t = "list"
         /\ \A i \in 1..Len(runs[r].raw_result.l) : ~Defective(runs[r].raw_result.l[i])
         /\ ReportOfResponse(runs[r].result, runs[r].raw_result)
    /\ runs[r].pc # "DONE" => runs[r].result = NoReport
    /\ runs[r].pc \in {"AGGREGATE", "DONE"} => runs[r].validated_clauses = runs[r].raw_result
    /\ (runs[r].pc = "FAILED" /\ runs[r].raw_result.t = "list") =>
         \E i \in 1..Len(runs[r].raw_result.l) : Defective(runs[r].raw_result.l[i])

\* a step changes the locals of one call and of no other
C13_OneRunPerStep ==
  \A r1, r2 \in Runs : (runs'[r1] # runs[r1] /\ runs'[r2] # runs[r2]) => r1 = r2
\* the response and the report of a call, once set, stay as they are
C13_ResponseAndReportKept ==
  \A r \in Runs :
    /\ runs[r].raw_result # Unset => runs'[r].raw_result = runs[r].raw_result
    /\ runs[r].validated_clauses # Unset =>
         runs'[r].validated_clauses = runs[r].validated_clauses
    /\ runs[r].result # NoReport => runs'[r].result = runs[r].result

\* C13: analysis runs interleaved in any order share no mutable state: the
\* report of a run is the report of its own response, as the run alone would
\* produce it, and a step of one run changes neither the clause sequence nor
\* the report of another.
C13_RunsIndependent ==
  /\ []C13_OwnResponseOnly
  /\ [][C13_OneRunPerStep]_runs
  /\ [][C13_ResponseAndReportKept]_runs

\* two calls that got different responses are done, each with its own report
C13_Witness ==
  /\ runs[1].pc = "DONE"
  /\ runs[2].pc = "DONE"
  /\ runs[1].raw_result.l = <<Clause(PyInt(1), PyStr("Liability"))>>
  /\ runs[2].raw_result.l = <<Clause(PyInt(0), PyStr("Financial"))>>
  /\ DOMAIN runs[1].result.risk_distribution = {PyStr("Liability")}
  /\ DOMAIN runs[2].result.risk_distribution = {PyStr("Financial")}
  /\ runs[1].result.overall_risk_score = PyFloat(100)
  /\ runs[2].result.overall_risk_score = PyFloat(0)

\* between two script runs no attempt is under way
C17_IdleNotAnalyzing == app.pc \in {"idle", "button", "results"} => ~app.analyzing
\* a stored result is the result of the last attempt, which passed
\* validate_analysis_result
C17_ResultOnlyOfValidAttempt ==
  app.analysis_result # "None" =>
    /\ app.analysis_result \in ValidResults
    /\ app.last_attempt = "valid"
\* an attempt starts with no stored result
C17_AttemptStartsCleared ==
  (app.pc = "processing" /\ app.analyzing) => app.analysis_result = "None"
\* an attempt ends with analyzing = False
C17_AttemptEnds ==
  (app.pc = "processing" /\ app.analyzing) => (app'.pc = "results" /\ ~app'.analyzing)
\* a click on Analyze that is taken up clears the stored result
C17_ClickClears ==
  (app.pc = "button" /\ ~app.analyzing /\ app'.analyzing) =>
    (app.event = "analyze" /\ app'.analysis_result = "None" /\ app'.pc = "processing")

\* C17: over any sequence of Analyze clicks, uploads and reruns every
\* analysis attempt, whatever its outcome, ends with analyzing = False;
\* analysis_result is set only if the last completed attempt returned a
\* result that passed validate_analysis_result; a click on Analyze clears the
\* stored result before the new attempt starts.
C17_SessionState ==
  /\ [](C17_IdleNotAnalyzing /\ C17_ResultOnlyOfValidAttempt /\ C17_AttemptStartsCleared)
  /\ [][C17_AttemptEnds]_app
  /\ [][C17_ClickClears]_app

\* an attempt on the file F2 has raised an exception: no result is stored and
\* analyzing is False
C17_Witness ==
  /\ app.pc = "results"
  /\ app.last_attempt = "Exception"
  /\ app.analysis_result = "None"
  /\ ~app.analyzing
  /\ app.event = "analyze"
  /\ app.uploaded_file = "F2"

====
